---- MODULE Spec2Model ----
(***************************************************************************)
(* wisfind: the MQTT connection manager (iter_mqtt), the pipeline driver   *)
(* (wis_event_loop) and the WIS2 Notification Message validators.          *)
(***************************************************************************)
EXTENDS Integers, Sequences, FiniteSets, TLC

VARIABLES info, validate_wnm, constraint_check,
          pc, attempts, exc,
          session, subscribed, yields,
          connects, failures, waits,
          nrecv, cur, data, verdict, disp, acted,
          fn, arg, ret, done

vars == <<info, validate_wnm, constraint_check, pc, attempts, exc,
          session, subscribed, yields, connects, failures, waits,
          nrecv, cur, data, verdict, disp, acted, fn, arg, ret, done>>

\* a function of the library applied on its own: its name, its argument, its
\* result, and whether it has returned
call == <<fn, arg, ret, done>>

config == <<info, validate_wnm, constraint_check>>
conn == <<attempts, session, subscribed, yields, connects, failures, waits>>
msgs == <<nrecv, cur, data, verdict, disp, acted>>

(***************************************************************************)
(* Bounds of the model.                                                    *)
(***************************************************************************)
MaxAttempts == 2
MaxFailures == 3
MaxMsgs == 2

(***************************************************************************)
(* Topic filters, as sequences of topic levels.                            *)
(***************************************************************************)
ALL_CORE_DATA == <<"cache", "a", "wis2", "+", "data", "core", "#">>
ORIGIN_DATA == <<"origin", "a", "wis2", "#">>
DEFAULT_TOPICS == <<ALL_CORE_DATA>>

\* the values of -T: the default, or one or more filters given by the user
TopicLists == {DEFAULT_TOPICS, <<ORIGIN_DATA>>}

\* values of reconnect_delay, in seconds
Delays == {1, 2}

\* client.subscribe("cache/a/wis2/#", qos=1)
SubscribeRequest == [topic |-> <<"cache", "a", "wis2", "#">>, qos |-> 1]

(***************************************************************************)
(* Message documents.  A key that is absent from the JSON object is        *)
(* "NOTSET" (the field default), a key given as null is "null".            *)
(***************************************************************************)
Presence == {"NOTSET", "null", "value"}

wnm_link_required_rel == {"canonical", "update", "deletion"}

NoDoc == [datetime |-> "NOTSET", start_datetime |-> "NOTSET", end_datetime |-> "NOTSET",
          conformsTo |-> "NOTSET", version |-> "NOTSET", links |-> <<>>]

GoodDoc == [datetime |-> "value", start_datetime |-> "NOTSET", end_datetime |-> "NOTSET",
            conformsTo |-> "value", version |-> "NOTSET", links |-> <<"canonical">>]

RangeDoc == [GoodDoc EXCEPT !.datetime = "NOTSET", !.start_datetime = "value",
                            !.end_datetime = "value", !.conformsTo = "NOTSET",
                            !.version = "value", !.links = <<"item", "update">>]

\* payloads the broker may deliver: bytes, their text and the JSON document
Payloads ==
    { [bytes |-> "invalid", json |-> "none", doc |-> NoDoc],
      [bytes |-> "utf-8", json |-> "malformed", doc |-> NoDoc],
      [bytes |-> "utf-8", json |-> "array", doc |-> NoDoc],
      [bytes |-> "utf-8", json |-> "object", doc |-> GoodDoc],
      [bytes |-> "utf-8", json |-> "object", doc |-> RangeDoc],
      [bytes |-> "utf-8", json |-> "object", doc |-> [GoodDoc EXCEPT !.datetime = "NOTSET"]],
      [bytes |-> "utf-8", json |-> "object", doc |-> [GoodDoc EXCEPT !.links = <<"item">>]] }

NoPayload == [bytes |-> "none", json |-> "none", doc |-> NoDoc]
NoData == [typed |-> FALSE, json |-> "none", doc |-> NoDoc]

(***************************************************************************)
(* WNM validation.                                                         *)
(***************************************************************************)
\* a variant without the `else` branch: datetime may come with a range
check_temporal_description_no_else(p) ==
    p.datetime = "NOTSET" => p.start_datetime # "NOTSET" /\ p.end_datetime # "NOTSET"

\* WNMProperties.check_temporal_description
check_temporal_description(p) ==
    IF p.datetime = "NOTSET"
    THEN ~(p.start_datetime = "NOTSET" /\ p.end_datetime = "NOTSET")
         /\ ~(p.start_datetime = "NOTSET" \/ p.end_datetime = "NOTSET")
    ELSE p.start_datetime = "NOTSET" /\ p.end_datetime = "NOTSET"

\* a variant without the second test: both may be given
check_conforms_to_or_version_any(m) ==
    ~(m.conformsTo = "NOTSET" /\ m.version = "NOTSET")

\* WNM.check_conforms_to_or_version
check_conforms_to_or_version(m) ==
    /\ ~(m.conformsTo = "NOTSET" /\ m.version = "NOTSET")
    /\ ~(m.conformsTo # "NOTSET" /\ m.version # "NOTSET")

\* a variant with all() in place of any()
check_links_rel_all(m) ==
    \A i \in 1..Len(m.links) : m.links[i] \in wnm_link_required_rel

\* WNM.check_links_rel
check_links_rel(m) ==
    \E i \in 1..Len(m.links) : m.links[i] \in wnm_link_required_rel

\* links: list[WNMLink] = Field(min_length=1)
links_min_length(m) == Len(m.links) >= 1

\* WNM(**data): the exception raised, or "none"
WNM(d) ==
    IF d.json # "object" THEN "TypeError"
    ELSE IF /\ links_min_length(d.doc)
            /\ check_temporal_description(d.doc)
            /\ check_conforms_to_or_version(d.doc)
            /\ check_links_rel(d.doc)
         THEN "none"
         ELSE "ValidationError"

(***************************************************************************)
(* Initial state: main() builds conn_info and calls wis_event_loop, whose  *)
(* first step enters iter_mqtt.                                            *)
(***************************************************************************)
Init ==
    /\ info \in [topics : TopicLists, reconnect_delay : Delays,
                reconnect_attempts : -1..MaxAttempts]
    /\ validate_wnm \in BOOLEAN
    /\ constraint_check \in {"None", "callable"}
    /\ pc = "connect"
    /\ attempts = info.reconnect_attempts
    /\ exc = "none"
    /\ session = FALSE
    /\ subscribed = <<>>
    /\ yields = 0
    /\ connects = 0
    /\ failures = 0
    /\ waits = <<>>
    /\ nrecv = 0
    /\ cur = NoPayload
    /\ data = NoData
    /\ verdict = "none"
    /\ disp = <<>>
    /\ acted = <<>>
    /\ fn = "none"
    /\ arg = "none"
    /\ ret = "none"
    /\ done = FALSE

(***************************************************************************)
(* iter_mqtt: the connection manager.                                      *)
(***************************************************************************)
\* a variant of the test that treats only a negative counter as exhausted
ExhaustedWhenNegative(a) == a < 0

\* a variant of the test that treats every non-positive counter as exhausted
ExhaustedWhenNotPositive(a) == a <= 0

\* `if not attempts`
Exhausted(a) == a = 0

\* a variant that leaves the counter as it is
DecrementDropped(a) == a

\* `attempts -= 1`
Decrement(a) == a - 1

\* except aiomqtt.MqttError: raise ConnectionError, or wait and loop
OnMqttError ==
    /\ failures' = failures + 1
    /\ session' = FALSE
    /\ IF Exhausted(attempts)
       THEN /\ exc' = "ConnectionError"
            /\ pc' = "terminated"
            /\ UNCHANGED <<attempts, waits>>
       ELSE /\ attempts' = Decrement(attempts)
            /\ waits' = Append(waits, info.reconnect_delay)
            /\ pc' = "sleep"
            /\ UNCHANGED exc

\* `async with client` entered: a session is established
Connect ==
    /\ pc = "connect"
    /\ connects' = connects + 1
    /\ session' = TRUE
    /\ subscribed' = <<>>
    /\ yields' = 0
    /\ pc' = "subscribe"
    /\ UNCHANGED <<call, config, attempts, exc, failures, waits, msgs>>

\* `async with client` fails to connect
ConnectError ==
    /\ pc = "connect"
    /\ failures < MaxFailures
    /\ connects' = connects + 1
    /\ OnMqttError
    /\ UNCHANGED <<call, config, subscribed, yields, msgs>>

\* await client.subscribe("cache/a/wis2/#", qos=1)
Subscribe ==
    /\ pc = "subscribe"
    /\ subscribed' = Append(subscribed, SubscribeRequest)
    /\ pc' = "iterate"
    /\ UNCHANGED <<call, config, attempts, exc, session, yields, connects, failures, waits, msgs>>

\* the subscribe request fails
SubscribeError ==
    /\ pc = "subscribe"
    /\ failures < MaxFailures
    /\ OnMqttError
    /\ UNCHANGED <<call, config, subscribed, yields, connects, msgs>>

\* a variant that takes the next message while the action is still to run
AwaitingMessageEarly == pc \in {"iterate", "act"}

\* the driver is suspended in `async for msg in iter_mqtt(...)`, and iter_mqtt
\* in `async for message in client.messages`
AwaitingMessage == pc = "iterate"

\* `async for message in client.messages: yield message`
Yield(p) ==
    /\ AwaitingMessage
    /\ nrecv < MaxMsgs
    /\ nrecv' = nrecv + 1
    /\ yields' = yields + 1
    /\ cur' = p
    /\ data' = NoData
    /\ verdict' = "none"
    /\ disp' = Append(disp, "pending")
    /\ pc' = "decode"
    /\ UNCHANGED <<call, config, attempts, exc, session, subscribed, connects, failures, waits, acted>>

\* client.messages raises: the connection was lost
MessagesError ==
    /\ pc = "iterate"
    /\ failures < MaxFailures
    /\ OnMqttError
    /\ UNCHANGED <<call, config, subscribed, yields, connects, msgs>>

\* await asyncio.sleep(info["reconnect_delay"]) returns; `while True` loops
Sleep ==
    /\ pc = "sleep"
    /\ pc' = "connect"
    /\ UNCHANGED <<call, config, conn, exc, msgs>>

(***************************************************************************)
(* wis_event_loop: the pipeline driver, one step per statement.            *)
(***************************************************************************)
\* `continue` after a logged, recoverable error: ask for the next message
Skip(why) ==
    /\ disp' = [disp EXCEPT ![nrecv] = why]
    /\ pc' = "iterate"
    /\ UNCHANGED exc

\* an exception leaves wis_event_loop
Raise(e, why) ==
    /\ disp' = [disp EXCEPT ![nrecv] = why]
    /\ pc' = "terminated"
    /\ exc' = e

\* msg.payload.decode("utf-8")
payload_decode(p) == IF p.bytes = "utf-8" THEN "none" ELSE "ValueError"

\* json.loads(payload)
json_loads(p) == IF p.json = "malformed" THEN "ValueError" ELSE "none"

\* except ValueError around payload.decode
OnInvalidBytes == Skip("invalid_bytes")

\* a variant that lets the error leave the driver
OnInvalidJsonRaise == Raise("ValueError", "invalid_json")

\* except ValueError around json.loads
OnInvalidJson == Skip("invalid_json")

\* a variant that logs and goes on to the next message
OnInvalidWNMContinue(e) == Skip("invalid_wnm")

\* except ValidationError: log and `raise`
OnInvalidWNM(e) == Raise(e, "invalid_wnm")

Decode ==
    /\ pc = "decode"
    /\ IF payload_decode(cur) = "none"
       THEN /\ pc' = "loads"
            /\ UNCHANGED <<exc, disp>>
       ELSE OnInvalidBytes
    /\ UNCHANGED <<call, config, conn, nrecv, cur, data, verdict, acted>>

Loads ==
    /\ pc = "loads"
    /\ IF json_loads(cur) = "none"
       THEN /\ data' = [typed |-> FALSE, json |-> cur.json, doc |-> cur.doc]
            /\ pc' = "validate"
            /\ UNCHANGED <<exc, disp>>
       ELSE /\ OnInvalidJson
            /\ UNCHANGED data
    /\ UNCHANGED <<call, config, conn, nrecv, cur, verdict, acted>>

\* a variant that validates whatever the flag is
ValidatingAlways == TRUE

\* `if validate_wnm:`
Validating == validate_wnm

\* `if validate_wnm: data = WNM(**data)`
Validate ==
    /\ pc = "validate"
    /\ IF Validating
       THEN IF WNM(data) = "none"
            THEN /\ data' = [data EXCEPT !.typed = TRUE]
                 /\ pc' = "check"
                 /\ UNCHANGED <<exc, disp>>
            ELSE /\ OnInvalidWNM(WNM(data))
                 /\ UNCHANGED data
       ELSE /\ pc' = "check"
            /\ UNCHANGED <<exc, disp, data>>
    /\ UNCHANGED <<call, config, conn, nrecv, cur, verdict, acted>>

\* what a call of the constraint_check callable may do
ConstraintOutcomes == {"true", "false", "raise"}

\* a variant without the `not`
RejectsInverted(r) == r = "true"

\* `not constraint_check(data)`
Rejects(r) == r = "false"

\* `if constraint_check is not None and not constraint_check(data): continue`
Check(r) ==
    /\ pc = "check"
    /\ IF constraint_check = "None"
       THEN /\ r = "true"
            /\ pc' = "act"
            /\ UNCHANGED <<exc, disp, verdict>>
       ELSE /\ verdict' = r
            /\ IF r = "raise"
               THEN Raise("ConstraintError", "constraint_error")
               ELSE IF Rejects(r)
                    THEN Skip("filtered")
                    ELSE pc' = "act" /\ UNCHANGED <<exc, disp>>
    /\ UNCHANGED <<call, config, conn, nrecv, cur, data, acted>>

\* a variant that swallows the error and goes on to the next message
OnActionErrorContinue == Skip("action_error")

\* action(data) raises: nothing in wis_event_loop catches it
OnActionError == Raise("ActionError", "action_error")

\* action(data)
Act(ok) ==
    /\ pc = "act"
    /\ acted' = Append(acted, [msg |-> nrecv, typed |-> data.typed])
    /\ IF ok THEN Skip("acted") ELSE OnActionError
    /\ UNCHANGED <<call, config, conn, nrecv, cur, data, verdict>>

Next ==
    \/ Connect
    \/ ConnectError
    \/ Subscribe
    \/ SubscribeError
    \/ \E p \in Payloads : Yield(p)
    \/ MessagesError
    \/ Sleep
    \/ Decode
    \/ Loads
    \/ Validate
    \/ \E r \in ConstraintOutcomes : Check(r)
    \/ \E ok \in BOOLEAN : Act(ok)

Spec == Init /\ [][Next]_vars

(***************************************************************************)
(* Properties of the connection manager.                                   *)
(***************************************************************************)
Min(a, b) == IF a <= b THEN a ELSE b

Processing == pc \in {"decode", "loads", "validate", "check", "act"}

\* C1: with reconnect_attempts = N >= 0 the counter is N minus the backoff
\* waits of the whole run (never reset), each of the first N transport
\* failures started exactly one wait of reconnect_delay that is followed by
\* a new connect and subscribe, and ConnectionError is raised at failure
\* N + 1 and not before.
C1_BoundedReconnect ==
    info.reconnect_attempts >= 0 =>
        /\ attempts = info.reconnect_attempts - Len(waits)
        /\ Len(waits) = Min(failures, info.reconnect_attempts)
        /\ \A i \in 1..Len(waits) : waits[i] = info.reconnect_delay
        /\ (exc = "ConnectionError") <=> (failures = info.reconnect_attempts + 1)
        /\ failures <= info.reconnect_attempts + 1
        /\ connects = IF pc \in {"connect", "sleep"} \/ exc = "ConnectionError"
                      THEN failures ELSE failures + 1
        /\ pc \in {"connect", "sleep"} => connects = Len(waits)
        /\ (pc = "iterate" \/ Processing) => session /\ Len(subscribed) = 1

\* two failures, with a delivering session in between, then a session that
\* delivers a message: two waits, no error
C1_Witness ==
    /\ info.reconnect_attempts = 2
    /\ failures = 2
    /\ Len(waits) = 2
    /\ nrecv = 2
    /\ yields = 1
    /\ pc = "decode"
    /\ exc = "none"

\* C2: with reconnect_attempts = 0 the first transport failure raises
\* ConnectionError and no backoff wait is made; in general a failure met
\* with a counter of zero raises at once, without a wait.
C2_NoWaitWhenExhausted ==
    /\ [](info.reconnect_attempts = 0 /\ failures >= 1 =>
            exc = "ConnectionError" /\ pc = "terminated" /\ waits = <<>> /\ failures = 1)
    /\ [][failures' # failures /\ attempts = 0 =>
            exc' = "ConnectionError" /\ pc' = "terminated" /\ waits' = waits]_vars

C2_Witness ==
    /\ info.reconnect_attempts = 0
    /\ failures = 1
    /\ exc = "ConnectionError"
    /\ waits = <<>>

\* C3: with a negative reconnect_attempts ConnectionError is never raised:
\* every transport failure is followed by a wait and a reconnect, and the
\* counter stays negative.
C3_UnlimitedReconnect ==
    info.reconnect_attempts < 0 =>
        /\ exc # "ConnectionError"
        /\ attempts < 0
        /\ ~Exhausted(attempts)
        /\ Len(waits) = failures
        /\ \A i \in 1..Len(waits) : waits[i] = info.reconnect_delay
        /\ pc = "terminated" => exc \in {"ValidationError", "TypeError", "ConstraintError", "ActionError"}

\* MaxFailures failures, and the connection is up again
C3_Witness ==
    /\ info.reconnect_attempts = -1
    /\ failures = MaxFailures
    /\ pc = "iterate"
    /\ session

\* MQTT topic filters: f covers g when every topic name that g matches is
\* matched by f ("+" stands for one level, a final "#" for any levels)
RECURSIVE Covers(_, _)
Covers(f, g) ==
    IF f = <<>> THEN g = <<>>
    ELSE IF Head(f) = "#" THEN TRUE
    ELSE IF g = <<>> \/ Head(g) = "#" THEN FALSE
    ELSE /\ Head(f) = "+" \/ Head(f) = Head(g)
         /\ Covers(Tail(f), Tail(g))

\* C4: in every established session the subscription is issued exactly once
\* before any payload is yielded, at QoS 1, and covers every topic filter of
\* info["topics"].
C4_SubscribesConfiguredTopics ==
    /\ yields > 0 => subscribed # <<>>
    /\ (pc = "iterate" \/ Processing) =>
           /\ session
           /\ Len(subscribed) = 1
           /\ \A j \in 1..Len(subscribed) : subscribed[j].qos = 1
           /\ \A i \in 1..Len(info.topics) :
                 \E j \in 1..Len(subscribed) : Covers(subscribed[j].topic, info.topics[i])

(***************************************************************************)
(* Properties of the pipeline driver.                                      *)
(***************************************************************************)
\* the number of times the action was invoked on message i
Invocations(i) == Cardinality({k \in 1..Len(acted) : acted[k].msg = i})

\* the payload is text that holds a JSON document
Decodable(p) == p.bytes = "utf-8" /\ p.json \in {"array", "object"}

\* the payload is a JSON document that is no valid WNM
SchemaViolating(p) ==
    /\ Decodable(p)
    /\ ~(/\ p.json = "object"
          /\ Len(p.doc.links) >= 1
          /\ \E i \in 1..Len(p.doc.links) : p.doc.links[i] \in {"canonical", "update", "deletion"}
          /\ (p.doc.conformsTo = "NOTSET") # (p.doc.version = "NOTSET")
          /\ \/ p.doc.datetime # "NOTSET" /\ p.doc.start_datetime = "NOTSET"
                                          /\ p.doc.end_datetime = "NOTSET"
             \/ p.doc.datetime = "NOTSET" /\ p.doc.start_datetime # "NOTSET"
                                          /\ p.doc.end_datetime # "NOTSET")

\* C5: in strict mode a decodable payload that violates the schema ends the
\* driver with the validation error: the predicate is not evaluated and the
\* action is not invoked on it, and it is the last message consumed.
C5_StrictSchemaViolationFatal ==
    /\ (validate_wnm /\ nrecv >= 1 /\ SchemaViolating(cur)
           /\ pc \notin {"decode", "loads", "validate"}) =>
          /\ pc = "terminated"
          /\ exc \in {"ValidationError", "TypeError"}
          /\ disp[nrecv] = "invalid_wnm"
          /\ verdict = "none"
          /\ Invocations(nrecv) = 0
    /\ \A i \in 1..nrecv : disp[i] = "invalid_wnm" =>
          /\ validate_wnm
          /\ i = nrecv
          /\ pc = "terminated"
          /\ Invocations(i) = 0

\* a second message violates the schema in strict mode
C5_Witness ==
    /\ validate_wnm
    /\ nrecv = 2
    /\ disp = <<"invalid_json", "invalid_wnm">>
    /\ cur.json = "object"
    /\ exc = "ValidationError"
    /\ pc = "terminated"

\* C6: a payload that is no text, or text that is no JSON document, is
\* skipped whatever validate_wnm is: neither the predicate nor the action
\* sees it, no exception leaves the driver because of it, and the driver
\* goes back to waiting for the next message.
C6_DecodeErrorSkipped ==
    /\ [](nrecv >= 1 /\ ~Decodable(cur) /\ pc \notin {"decode", "loads"} =>
            /\ disp[nrecv] \in {"invalid_bytes", "invalid_json"}
            /\ verdict = "none"
            /\ Invocations(nrecv) = 0
            /\ exc \in {"none", "ConnectionError"})
    /\ [](\A i \in 1..nrecv : disp[i] \in {"invalid_bytes", "invalid_json"} =>
            Invocations(i) = 0)
    /\ [][Processing /\ ~Decodable(cur) =>
            /\ exc' = "none"
            /\ pc' = IF pc = "decode" /\ cur.bytes = "utf-8" THEN "loads" ELSE "iterate"]_vars

\* in strict mode two undecodable payloads were skipped and the driver waits
\* for a third message
C6_Witness ==
    /\ validate_wnm
    /\ disp = <<"invalid_bytes", "invalid_json">>
    /\ pc = "iterate"
    /\ exc = "none"

\* C7: with validate_wnm false a decodable payload that violates the schema
\* is not rejected: it reaches the predicate, and the action if the
\* predicate holds, as the untyped document, and no exception is raised for
\* the violation.
C7_LenientPassThrough ==
    /\ [](~validate_wnm /\ nrecv >= 1 /\ SchemaViolating(cur) =>
            /\ disp[nrecv] # "invalid_wnm"
            /\ exc \notin {"ValidationError", "TypeError"}
            /\ pc \in {"check", "act"} =>
                  data = [typed |-> FALSE, json |-> cur.json, doc |-> cur.doc]
            /\ \A k \in 1..Len(acted) : acted[k].msg = nrecv => ~acted[k].typed
            /\ (verdict = "true" \/ (constraint_check = "None" /\ pc = "iterate"))
                  => pc = "act" \/ Invocations(nrecv) = 1)
    /\ [][~validate_wnm /\ pc = "validate" =>
            pc' = "check" /\ data' = data /\ exc' = "none"]_vars

\* a schema-violating document was accepted by the predicate, dispatched,
\* and a further message is being handled
C7_Witness ==
    /\ ~validate_wnm
    /\ constraint_check = "callable"
    /\ nrecv = 2
    /\ disp[1] = "acted"
    /\ acted[1] = [msg |-> 1, typed |-> FALSE]
    /\ SchemaViolating(cur)
    /\ verdict = "true"
    /\ disp[2] = "acted"
    /\ pc = "iterate"

\* the message went through decoding and validation
Passed(i) == disp[i] \notin {"invalid_bytes", "invalid_json", "invalid_wnm"}

\* C8: a message that passed decoding and validation is dispatched to the
\* action exactly once when the predicate evaluated to true on it (or no
\* constraint was given) and never when it evaluated to false, in which case
\* the driver goes on with the next message; the action is invoked on no
\* other message.
C8_DispatchFollowsPredicate ==
    /\ [](\A i \in 1..nrecv :
            /\ Invocations(i) <= 1
            /\ Invocations(i) = 1 <=> disp[i] \in {"acted", "action_error"}
            /\ Invocations(i) = 1 => Passed(i)
            /\ disp[i] = "filtered" => constraint_check # "None" /\ Invocations(i) = 0
            /\ (constraint_check = "None" /\ Passed(i) /\ (i < nrecv \/ pc = "iterate"))
                  => Invocations(i) = 1)
    /\ [](nrecv >= 1 =>
            /\ verdict = "true" => (pc = "act" /\ Invocations(nrecv) = 0) \/ Invocations(nrecv) = 1
            /\ verdict = "false" => disp[nrecv] = "filtered" /\ exc \in {"none", "ConnectionError"}
            /\ Invocations(nrecv) = 1 =>
                  verdict = "true" \/ (constraint_check = "None" /\ verdict = "none")
            /\ pc = "act" => verdict = "true" \/ constraint_check = "None")
    /\ [][pc = "check" /\ verdict' = "false" => pc' = "iterate" /\ acted' = acted]_vars
    /\ [][pc = "check" /\ verdict' = "true" => pc' = "act"]_vars

\* the predicate rejected the first message and accepted the second
C8_Witness ==
    /\ constraint_check = "callable"
    /\ disp = <<"filtered", "acted">>
    /\ Len(acted) = 1
    /\ acted[1].msg = 2
    /\ verdict = "true"
    /\ pc = "iterate"

\* C9: an error raised by the action leaves wis_event_loop: the driver is
\* terminated with it, the action was invoked once on that message, no
\* further message is consumed and the reconnect path is not entered.
C9_ActionErrorFatal ==
    /\ [](\A i \in 1..nrecv : disp[i] = "action_error" =>
            /\ i = nrecv
            /\ Invocations(i) = 1
            /\ pc = "terminated"
            /\ exc = "ActionError")
    /\ [](exc = "ActionError" => pc = "terminated" /\ disp[nrecv] = "action_error")
    /\ [][pc = "act" =>
            /\ UNCHANGED <<attempts, waits, failures, connects, session, nrecv>>
            /\ pc' \in {"iterate", "terminated"}
            /\ pc' = "terminated" <=> exc' = "ActionError"
            /\ Len(acted') = Len(acted) + 1]_vars
    /\ [][exc = "none"]_vars

\* the action raised on the second message, after a reconnect
C9_Witness ==
    /\ exc = "ActionError"
    /\ pc = "terminated"
    /\ nrecv = 2
    /\ failures >= 1
    /\ session

\* C10: messages are handled one at a time and in arrival order: a payload is
\* taken from the connection manager only when the one before it has been
\* handled to the end, the action is invoked on the message being handled,
\* and the invocations are in the order of arrival.
C10_OneAtATimeInOrder ==
    /\ [](\A j, k \in 1..Len(acted) : j < k => acted[j].msg < acted[k].msg)
    /\ [](\A k \in 1..Len(acted) : acted[k].msg \in 1..nrecv)
    /\ [](\A i \in 1..nrecv : disp[i] = "pending" => i = nrecv /\ Processing)
    /\ [][nrecv' # nrecv =>
            /\ nrecv' = nrecv + 1
            /\ pc = "iterate"
            /\ \A i \in 1..nrecv : disp[i] # "pending"]_vars
    /\ [][acted' # acted =>
            /\ acted' = Append(acted, [msg |-> nrecv, typed |-> data.typed])
            /\ pc = "act"
            /\ nrecv' = nrecv]_vars

\* two messages dispatched, the second one in a later session
C10_Witness ==
    /\ nrecv = 2
    /\ yields = 1
    /\ failures >= 1
    /\ Len(acted) = 2
    /\ acted[1].msg = 1
    /\ acted[2].msg = 2

(***************************************************************************)
(* The functions of the library applied on their own: the WNM models, the  *)
(* serializer, the timestamp parser and the command-line parser.  One      *)
(* behaviour picks a function and an argument and applies it.              *)
(***************************************************************************)
MaxLinks == 2

\* values of WNMLink.rel: the required ones and another one
Rels == wnm_link_required_rel \cup {"item"}

LinkLists == UNION {[1..n -> Rels] : n \in 0..MaxLinks}

\* the JSON objects given to WNM(**data)
Docs == [datetime : Presence, start_datetime : Presence, end_datetime : Presence,
         conformsTo : {"NOTSET", "value"}, version : {"NOTSET", "value"},
         links : LinkLists]

\* the temporal fields of the JSON objects given to WNMProperties(**data)
TemporalDocs == [datetime : Presence, start_datetime : Presence, end_datetime : Presence]

\* WNMProperties(**data): the exception raised, or "none"
WNMProperties(p) ==
    IF check_temporal_description(p) THEN "none" ELSE "ValidationError"

WNMContentEncoding == {"utf-8", "base64", "gzip"}

wnm_content_max_bytes == 4096

\* declared sizes around the limit, and encodings in and out of the Literal
ContentDocs == [encoding : WNMContentEncoding \cup {"latin-1"},
                size : {-1, 0, wnm_content_max_bytes - 1, wnm_content_max_bytes,
                        wnm_content_max_bytes + 1, 2 * wnm_content_max_bytes}]

\* a variant with lt in place of le
size_lt(n) == n < wnm_content_max_bytes

\* size: int = Field(le=wnm_content_max_bytes)
size_le(n) == n <= wnm_content_max_bytes

\* WNMContent(**data): the exception raised, or "none"
WNMContent(c) ==
    IF c.encoding \in WNMContentEncoding /\ size_le(c.size)
    THEN "none" ELSE "ValidationError"

\* the fields with a NOTSET default, and the required field of the model
UnsetFields == {"datetime", "start_datetime", "end_datetime", "conformsTo", "version"}
FieldNames == UnsetFields \cup {"links"}

\* model_fields_set: the fields given when the message was built.  NOTSET is
\* no JSON value, so the fields not given are those that hold NOTSET.
model_fields_set(m) == {f \in FieldNames : f \notin UnsetFields \/ m[f] # "NOTSET"}

\* a variant that emits every field, NOTSET as null
serialize_all(m) ==
    [f \in FieldNames |-> IF f \in UnsetFields /\ m[f] = "NOTSET" THEN "null" ELSE m[f]]

\* WNMModel.serialize: {field: getattr(self, field) for field in self.model_fields_set}
serialize(m) == [f \in model_fields_set(m) |-> m[f]]

\* the fields of WNM(**obj): a key that is not given takes the field default
WNM_fields(obj) ==
    [datetime |-> IF "datetime" \in DOMAIN obj THEN obj["datetime"] ELSE "NOTSET",
     start_datetime |-> IF "start_datetime" \in DOMAIN obj THEN obj["start_datetime"] ELSE "NOTSET",
     end_datetime |-> IF "end_datetime" \in DOMAIN obj THEN obj["end_datetime"] ELSE "NOTSET",
     conformsTo |-> IF "conformsTo" \in DOMAIN obj THEN obj["conformsTo"] ELSE "NOTSET",
     version |-> IF "version" \in DOMAIN obj THEN obj["version"] ELSE "NOTSET",
     links |-> IF "links" \in DOMAIN obj THEN obj["links"] ELSE <<>>]

\* emit(msg) writes msg.model_dump_json(); the text is read back with
\* json.loads and WNM(**data)
emit_and_validate(m) ==
    LET text == serialize(m)
        back == WNM_fields(text)
    IN [text |-> text,
        exc |-> IF "links" \notin DOMAIN text THEN "ValidationError"
                ELSE WNM([json |-> "object", doc |-> back]),
        msg |-> back]

\* timestamps: without a zone, with UTC as zone, with another zone, and no
\* timestamp at all
Timestamps == {"2024-01-01T00:00:00", "2024-01-01T00:00:00+00:00",
               "2024-01-01T02:00:00+02:00", "yesterday"}

\* datetime.fromisoformat: the tzinfo of the datetime, or the exception
fromisoformat(s) ==
    CASE s = "2024-01-01T00:00:00" -> [exc |-> "none", tzinfo |-> "None"]
      [] s = "2024-01-01T00:00:00+00:00" -> [exc |-> "none", tzinfo |-> "utc"]
      [] s = "2024-01-01T02:00:00+02:00" -> [exc |-> "none", tzinfo |-> "+02:00"]
      [] OTHER -> [exc |-> "ValueError", tzinfo |-> "None"]

\* parse_wnm_datetime: `dt.tzinfo = timezone.utc` assigns to a read-only
\* attribute, and the message of the ValueError calls dt.toisoformat(),
\* which datetime does not have
parse_wnm_datetime(s) ==
    LET dt == fromisoformat(s)
    IN IF dt.exc # "none" THEN [exc |-> "ValueError", tzinfo |-> "None"]
       ELSE IF dt.tzinfo = "None" THEN [exc |-> "AttributeError", tzinfo |-> "None"]
       ELSE IF dt.tzinfo # "utc" THEN [exc |-> "AttributeError", tzinfo |-> "None"]
       ELSE dt

\* command-line tokens, as str.partition("=") splits them
Opt(name) == [head |-> name, eq |-> "", tail |-> ""]
Expr(key, val) == [head |-> key, eq |-> "=", tail |-> val]

MaxTokens == 2

Tokens == {Opt("-print"), Opt("-match"), Opt("-bogus"), Opt("dataId"),
           Expr("dataId", "abc123")}

\* the expression of the specification, in its spelling and with the dashes
\* of PARSER_OPTS
NotOrTokens == <<Opt("not"), Opt("match"), Expr("dataId", "abc123"),
                 Opt("or"), Opt("match"), Expr("dataId", "zzz")>>
NotOrDashTokens == <<Opt("-not"), Opt("-match"), Expr("dataId", "abc123"),
                     Opt("-or"), Opt("-match"), Expr("dataId", "zzz")>>

TokenLists == UNION {[1..n -> Tokens] : n \in 0..MaxTokens}
                  \cup {NotOrTokens, NotOrDashTokens}

\* messages: a WNM object or the dict of json.loads, with its top-level fields
Messages == [typed : BOOLEAN,
             fields : {[dataId |-> "abc123"], [dataId |-> "xyz"], [dataId |-> "zzz"],
                       [id |-> "abc123"]}]

\* the keys of PARSER_OPTS.  Both members of OptType have the value '', so
\* OptType.constraint is an alias of OptType.action.
PARSER_OPTS ==
    [o \in {"-print", "-pprint", "-print0", "-match"} |->
        [opt_type |-> "", nargs |-> IF o = "-match" THEN 1 ELSE 0]]

\* `arg not in PARSER_OPTS`
in_PARSER_OPTS(tok) == tok.eq = "" /\ tok.head \in DOMAIN PARSER_OPTS

\* constraint_match(match_expr)(msg): msg[key] == val
constraint_match(match_expr, msg) ==
    IF match_expr.eq = "" THEN [exc |-> "ValueError", value |-> "None"]
    ELSE IF msg.typed THEN [exc |-> "TypeError", value |-> "None"]
    ELSE IF match_expr.head \notin DOMAIN msg.fields THEN [exc |-> "KeyError", value |-> "None"]
    ELSE IF msg.fields[match_expr.head] = match_expr.tail
         THEN [exc |-> "none", value |-> "True"]
         ELSE [exc |-> "none", value |-> "False"]

\* o_not: functools and filterfalse are not imported
o_not(f) == [exc |-> "NameError", value |-> "None"]

\* o_or: the body is `pass`
o_or(f1, f2) == [exc |-> "none", value |-> "None"]

\* o_and: the body is `pass`
o_and(f1, f2) == [exc |-> "none", value |-> "None"]

\* compose_constraints_and_action: the body is `pass`
compose_constraints_and_action(constraint_list, action) ==
    [exc |-> "none", value |-> "None"]

\* parse_args: the first token is unknown, or its branch evaluates the
\* undefined name TODO; without tokens the default action is composed
parse_args(args) ==
    IF Len(args) = 0
    THEN compose_constraints_and_action(<<>>, "-pprint")
    ELSE IF ~in_PARSER_OPTS(args[1])
         THEN [exc |-> "ParserError", value |-> "None"]
         ELSE [exc |-> "NameError", value |-> "None"]

\* the value parse_args returned is called with a message
call_compiled(c, msg) ==
    IF c.exc # "none" THEN c
    ELSE [exc |-> "TypeError", value |-> "None"]

\* parse_action_constraints: returns None, None whatever args is
parse_action_constraints(args) ==
    [exc |-> "none", action |-> "None", constraint_check |-> "None"]

\* nothing of the driver runs while a function is applied on its own
DriverIdle ==
    /\ info = [topics |-> DEFAULT_TOPICS, reconnect_delay |-> 1, reconnect_attempts |-> -1]
    /\ validate_wnm = TRUE
    /\ constraint_check = "None"
    /\ pc = "main"
    /\ attempts = info.reconnect_attempts
    /\ exc = "none"
    /\ session = FALSE
    /\ subscribed = <<>>
    /\ yields = 0
    /\ connects = 0
    /\ failures = 0
    /\ waits = <<>>
    /\ nrecv = 0
    /\ cur = NoPayload
    /\ data = NoData
    /\ verdict = "none"
    /\ disp = <<>>
    /\ acted = <<>>

driver == <<info, validate_wnm, constraint_check, pc, attempts, exc,
            session, subscribed, yields, connects, failures, waits,
            nrecv, cur, data, verdict, disp, acted>>

InitFn ==
    /\ DriverIdle
    /\ \/ fn = "WNMProperties" /\ arg \in TemporalDocs
       \/ fn = "WNM" /\ arg \in Docs
       \/ fn = "WNMContent" /\ arg \in ContentDocs
       \/ fn = "emit" /\ arg \in {d \in Docs : WNM([json |-> "object", doc |-> d]) = "none"}
       \/ fn = "parse_wnm_datetime" /\ arg \in Timestamps
       \/ fn = "constraint_match" /\ arg \in [expr : {t \in Tokens : t.head = "dataId"},
                                               msg : Messages]
       \/ fn = "parse_args" /\ arg \in [tokens : TokenLists, msg : Messages]
       \/ fn = "operator" /\ arg \in {"o_not", "o_or", "o_and"}
       \/ fn = "main" /\ arg \in TokenLists
    /\ ret = "none"
    /\ done = FALSE

\* the function returns, or raises, r
Return(r) ==
    /\ ~done
    /\ ret' = r
    /\ done' = TRUE
    /\ UNCHANGED <<fn, arg>>

CallWNMProperties ==
    /\ fn = "WNMProperties"
    /\ Return(WNMProperties(arg))
    /\ UNCHANGED driver

CallWNM ==
    /\ fn = "WNM"
    /\ Return(WNM([json |-> "object", doc |-> arg]))
    /\ UNCHANGED driver

CallWNMContent ==
    /\ fn = "WNMContent"
    /\ Return(WNMContent(arg))
    /\ UNCHANGED driver

\* a valid message is emitted, and the text validated again
CallEmit ==
    /\ fn = "emit"
    /\ Return(emit_and_validate(arg))
    /\ UNCHANGED driver

CallParseWnmDatetime ==
    /\ fn = "parse_wnm_datetime"
    /\ Return(parse_wnm_datetime(arg))
    /\ UNCHANGED driver

CallConstraintMatch ==
    /\ fn = "constraint_match"
    /\ Return(constraint_match(arg.expr, arg.msg))
    /\ UNCHANGED driver

\* the tokens are compiled and the result is called with a message
CallParseArgs ==
    /\ fn = "parse_args"
    /\ Return(call_compiled(parse_args(arg.tokens), arg.msg))
    /\ UNCHANGED driver

CallOperator ==
    /\ fn = "operator"
    /\ Return(CASE arg = "o_not" -> o_not("f")
                 [] arg = "o_or" -> o_or("f1", "f2")
                 [] arg = "o_and" -> o_and("f1", "f2"))
    /\ UNCHANGED driver

\* main(): the leftover tokens go to parse_action_constraints, then
\* asyncio.run(wis_event_loop(...)) enters iter_mqtt
Main ==
    /\ fn = "main"
    /\ pc = "main"
    /\ Return(parse_action_constraints(arg))
    /\ IF parse_action_constraints(arg).exc = "none"
       THEN /\ pc' = "connect"
            /\ exc' = exc
       ELSE /\ pc' = "terminated"
            /\ exc' = parse_action_constraints(arg).exc
    /\ constraint_check' = parse_action_constraints(arg).constraint_check
    /\ UNCHANGED <<info, validate_wnm, conn, msgs>>

NextFn ==
    \/ Main
    \/ Connect
    \/ CallConstraintMatch
    \/ CallParseArgs
    \/ CallOperator
    \/ CallWNMProperties
    \/ CallWNM
    \/ CallWNMContent
    \/ CallEmit
    \/ CallParseWnmDatetime

SpecFn == InitFn /\ [][NextFn]_vars

(***************************************************************************)
(* Properties of the message validators.                                   *)
(***************************************************************************)
\* datetime alone, or start_datetime and end_datetime together
TemporalOK(p) ==
    \/ p.datetime # "NOTSET" /\ p.start_datetime = "NOTSET" /\ p.end_datetime = "NOTSET"
    \/ p.datetime = "NOTSET" /\ p.start_datetime # "NOTSET" /\ p.end_datetime # "NOTSET"

\* exactly one of conformsTo and version
ConformanceOK(m) == (m.conformsTo = "NOTSET") # (m.version = "NOTSET")

\* some link has a required relation
LinksOK(m) == \E i \in DOMAIN m.links : m.links[i] \in {"canonical", "update", "deletion"}

\* C11: over all presence states of datetime, start_datetime and
\* end_datetime the properties record passes the temporal check exactly when
\* datetime is present and both range fields are unset, or datetime is unset
\* and both range fields are present; every other combination is a
\* validation error.
C11_TemporalDescription ==
    (done /\ fn = "WNMProperties") =>
        /\ ret \in {"none", "ValidationError"}
        /\ ret = "none" <=> TemporalOK(arg)
        /\ (arg.datetime # "NOTSET" /\ (arg.start_datetime # "NOTSET" \/ arg.end_datetime # "NOTSET"))
              => ret = "ValidationError"
        /\ (arg.datetime = "NOTSET" /\ arg.start_datetime = "NOTSET" /\ arg.end_datetime = "NOTSET")
              => ret = "ValidationError"
        /\ ((arg.start_datetime = "NOTSET") # (arg.end_datetime = "NOTSET"))
              => ret = "ValidationError"

\* datetime given as null, no range: accepted
C11_Witness ==
    /\ done
    /\ fn = "WNMProperties"
    /\ arg = [datetime |-> "null", start_datetime |-> "NOTSET", end_datetime |-> "NOTSET"]
    /\ ret = "none"

\* C12: a message passes the conformance check exactly when one of
\* conformsTo and version is given: both, and neither, are validation errors.
C12_ConformsToOrVersion ==
    (done /\ fn = "WNM") =>
        /\ ret = "none" => ConformanceOK(arg)
        /\ ~ConformanceOK(arg) => ret = "ValidationError"
        /\ (ConformanceOK(arg) /\ TemporalOK(arg) /\ LinksOK(arg)) => ret = "none"

\* both conformsTo and version given, the rest of the message valid
C12_Witness ==
    /\ done
    /\ fn = "WNM"
    /\ arg.conformsTo = "value"
    /\ arg.version = "value"
    /\ TemporalOK(arg)
    /\ LinksOK(arg)
    /\ ret = "ValidationError"

\* C13: a message none of whose links has rel canonical, update or deletion
\* (the empty list included) is a validation error; with one such link the
\* link check passes whatever the other links are.
C13_LinksRel ==
    (done /\ fn = "WNM") =>
        /\ ret = "none" => LinksOK(arg)
        /\ ~LinksOK(arg) => ret = "ValidationError"
        /\ arg.links = <<>> => ret = "ValidationError"
        /\ (LinksOK(arg) /\ TemporalOK(arg) /\ ConformanceOK(arg)) => ret = "none"

\* a link with another rel before the required one
C13_Witness ==
    /\ done
    /\ fn = "WNM"
    /\ arg.links = <<"item", "canonical">>
    /\ ret = "none"

Zone(s) ==
    CASE s = "2024-01-01T00:00:00" -> "none"
      [] s = "2024-01-01T00:00:00+00:00" -> "utc"
      [] s = "2024-01-01T02:00:00+02:00" -> "other"
      [] OTHER -> "invalid"

\* C19: parse_wnm_datetime returns a UTC timestamp for a timestamp without a
\* zone and for one with UTC as zone, and raises ValueError for a timestamp
\* with another zone.
C19_ParseWnmDatetime ==
    (done /\ fn = "parse_wnm_datetime") =>
        /\ Zone(arg) \in {"none", "utc"} => ret.exc = "none" /\ ret.tzinfo = "utc"
        /\ Zone(arg) = "other" => ret.exc = "ValueError"

(***************************************************************************)
(* Properties of the constraint engine.                                    *)
(***************************************************************************)
\* C16: the predicate of `match key=value` is true on a message, typed or
\* raw, whose field key equals value, false when the field has another
\* value, and false, with no error, when the message has no field key.
C16_MatchPredicate ==
    (done /\ fn = "constraint_match" /\ arg.expr.eq = "=") =>
        /\ ret.exc = "none"
        /\ ret.value = IF /\ arg.expr.head \in DOMAIN arg.msg.fields
                          /\ arg.msg.fields[arg.expr.head] = arg.expr.tail
                       THEN "True" ELSE "False"

\* C17: `not match dataId=abc123 or match dataId=zzz` compiles, and the
\* predicate is false on a message with dataId abc123 and true on one with
\* dataId zzz.
C17_NotOrFold ==
    (done /\ fn = "parse_args" /\ arg.tokens \in {NotOrTokens, NotOrDashTokens}) =>
        /\ ret.exc = "none"
        /\ arg.msg.fields = [dataId |-> "abc123"] => ret.value = "False"
        /\ arg.msg.fields = [dataId |-> "zzz"] => ret.value = "True"

\* the token list has an unknown token, a -match without its argument, or
\* more than one action
RECURSIVE Malformed(_, _)
Malformed(t, actions) ==
    IF t = <<>> THEN actions > 1
    ELSE IF t[1] = Opt("-match")
         THEN Len(t) < 2 \/ t[2].eq = "" \/ Malformed(SubSeq(t, 3, Len(t)), actions)
    ELSE IF t[1] \in {Opt("-print"), Opt("-pprint"), Opt("-print0")}
         THEN Malformed(Tail(t), actions + 1)
    ELSE TRUE

\* C18: a token list with a compile error ends the run with that error
\* before iter_mqtt is entered: no connection is attempted.
C18_CompileErrorBeforeConnect ==
    (fn = "main" /\ Malformed(arg, 0)) =>
        /\ pc \in {"main", "terminated"}
        /\ connects = 0
        /\ ~session
        /\ done => ret.exc # "none" /\ exc = ret.exc

====
